---------------------------- MODULE Spec2Model ----------------------------
(***************************************************************************)
(* A model of wav_splitter (src/src/lib.rs): split_wav and                 *)
(* write_wav_header.                                                       *)
(*                                                                         *)
(* std::time::Duration is modelled as the pair it is in std: whole seconds *)
(* and a nanosecond part below 10^9, with std's carry and borrow.  u32 and *)
(* wider byte counts are modelled as two base-2^16 limbs, so that sums and *)
(* products at and above 2^32 are representable.                           *)
(***************************************************************************)
EXTENDS Integers, Sequences, FiniteSets, TLC

VARIABLES
    pc,                 \* position of split_wav
    result,             \* "none" while running, then "Ok" | "Err" | "Panic"
    error,              \* the io::Error message split_wav returned, or "none"
    failures,           \* history: the stages that failed during this run
    overflow_checks,    \* build profile: TRUE = overflow panics, FALSE = wraps
    chunk_duration,     \* options.chunk_duration
    codec_params,       \* track.codec_params (line 104)
    packets,            \* Vec of packets read by the first pass
    packet_times,       \* cumulative end time of each packet
    total_duration,
    chunks,             \* Vec<ChunkInfo>
    chunk_start_packet,
    chunk_start_time,
    files,              \* the output files on disk, in creation order
    output_files,       \* SplitResult.output_files (file numbers)
    w_pc,               \* position of the single-chunk writer harness
    w_lens,             \* payload byte lengths of the chunk's packets
    w_fmt,              \* sample_rate, channels, bits_per_sample
    w_size,             \* chunk_data_size
    w_out,              \* bytes emitted by write_wav_header
    w_written           \* number of payload bytes written after the header

vars == <<pc, result, error, failures, overflow_checks, chunk_duration,
          codec_params, packets, packet_times, total_duration, chunks,
          chunk_start_packet, chunk_start_time, files, output_files,
          w_pc, w_lens, w_fmt, w_size, w_out, w_written>>

splitVars == <<pc, result, error, failures, chunk_duration,
               codec_params, packets, packet_times, total_duration, chunks,
               chunk_start_packet, chunk_start_time, files, output_files>>

writerVars == <<w_pc, w_lens, w_fmt, w_size, w_out, w_written>>

-----------------------------------------------------------------------------
(* Bounds and sampled inputs *)

MaxPackets == 3

\* what the demuxer may yield: a frame count (packet.dur) and a payload
PacketSamples ==
    { [dur |-> 0, data |-> << >>],
      [dur |-> 0, data |-> <<5, 6>>],
      [dur |-> 1, data |-> <<1>>],
      [dur |-> 1, data |-> <<2, 3>>],
      [dur |-> 2, data |-> <<4>>],
      [dur |-> 2, data |-> << >>] }

\* Option<T>: None, or Some(x)
None == << >>

Some(x) == <<x>>

Unwrap(o) == o[1]

ZeroDuration == [secs |-> 0, nanos |-> 0]

ChunkDurations ==
    { ZeroDuration, [secs |-> 1, nanos |-> 0], [secs |-> 1, nanos |-> 500000000] }

CodecParamSamples ==
    { [time_base |-> None, sample_rate |-> None, channels |-> None,
       bits_per_sample |-> None],
      [time_base |-> Some([numer |-> 1, denom |-> 3]), sample_rate |-> None,
       channels |-> None, bits_per_sample |-> None],
      [time_base |-> Some([numer |-> 1, denom |-> 1]), sample_rate |-> Some(8000),
       channels |-> Some(1), bits_per_sample |-> Some(8)] }

-----------------------------------------------------------------------------
(* std::time::Duration *)

NanosPerSec == 10^9

DurAdd(a, b) ==
    LET n == a.nanos + b.nanos
    IN  IF n >= NanosPerSec
        THEN [secs |-> a.secs + b.secs + 1, nanos |-> n - NanosPerSec]
        ELSE [secs |-> a.secs + b.secs, nanos |-> n]

DurLess(a, b) == a.secs < b.secs \/ (a.secs = b.secs /\ a.nanos < b.nanos)

DurLeq(a, b) == a = b \/ DurLess(a, b)

\* a - b for b <= a (std panics otherwise)
DurSub(a, b) ==
    IF a.nanos >= b.nanos
    THEN [secs |-> a.secs - b.secs, nanos |-> a.nanos - b.nanos]
    ELSE [secs |-> a.secs - b.secs - 1, nanos |-> a.nanos + NanosPerSec - b.nanos]

\* Duration::from_secs_f64(num / den): the nearest nanosecond (ties to even).
\* The f64 representation error of num/den is not modelled.
DurationFromSecs(num, den) ==
    LET rem   == num % den
        q     == NanosPerSec \div den
        r     == NanosPerSec % den
        floor == rem * q + (rem * r) \div den
        twice == 2 * ((rem * r) % den)
        up    == twice > den \/ (twice = den /\ floor % 2 = 1)
        n     == IF up THEN floor + 1 ELSE floor
    IN  IF n >= NanosPerSec
        THEN [secs |-> num \div den + 1, nanos |-> n - NanosPerSec]
        ELSE [secs |-> num \div den, nanos |-> n]

\* line 117-120: the duration of a packet of frame_len frames
PacketDuration(frame_len, time_base) ==
    DurationFromSecs(frame_len * time_base.numer, time_base.denom)

-----------------------------------------------------------------------------
(* Second pass: chunk boundaries *)

N == Len(packets)

\* packet_times[i] with the code's 0-based index
TimeAt(times, i) == times[i + 1]

\* faulty variant: the scan tests the end time of the packet at the cursor, not of
\* the packet before it, and so stops before the packet that crosses the target
RECURSIVE ScanEndEarly(_, _, _, _)
ScanEndEarly(chunk_end_packet, chunk_start_packet_, target_end_time, times) ==
    IF chunk_end_packet < Len(times)
       /\ (chunk_end_packet = chunk_start_packet_
           \/ DurLess(TimeAt(times, chunk_end_packet), target_end_time))
    THEN ScanEndEarly(chunk_end_packet + 1, chunk_start_packet_, target_end_time, times)
    ELSE chunk_end_packet

\* faulty variant: `<=` for `<`, so a packet ending exactly on the target is followed
\* by one more packet
RECURSIVE ScanEndInclusive(_, _, _, _)
ScanEndInclusive(chunk_end_packet, chunk_start_packet_, target_end_time, times) ==
    IF chunk_end_packet < Len(times)
       /\ (chunk_end_packet = chunk_start_packet_
           \/ DurLeq(TimeAt(times, chunk_end_packet - 1), target_end_time))
    THEN ScanEndInclusive(chunk_end_packet + 1, chunk_start_packet_, target_end_time, times)
    ELSE chunk_end_packet

\* lines 148-153: the inner while loop, from cursor value chunk_end_packet
RECURSIVE ScanEnd(_, _, _, _)
ScanEnd(chunk_end_packet, chunk_start_packet_, target_end_time, times) ==
    IF chunk_end_packet < Len(times)
       /\ (chunk_end_packet = chunk_start_packet_
           \/ DurLess(TimeAt(times, chunk_end_packet - 1), target_end_time))
    THEN ScanEnd(chunk_end_packet + 1, chunk_start_packet_, target_end_time, times)
    ELSE chunk_end_packet

\* faulty variant: the first packet is taken unconditionally only at index 0, and no
\* packet is forced into a chunk the scan left empty
RECURSIVE ScanFromZero(_, _, _)
ScanFromZero(chunk_end_packet, target_end_time, times) ==
    IF chunk_end_packet < Len(times)
       /\ (chunk_end_packet = 0
           \/ DurLess(TimeAt(times, chunk_end_packet - 1), target_end_time))
    THEN ScanFromZero(chunk_end_packet + 1, target_end_time, times)
    ELSE chunk_end_packet

ChunkEndPacketStall(chunk_start_packet_, target_end_time, times) ==
    ScanFromZero(chunk_start_packet_, target_end_time, times)

\* lines 148-158: the scan followed by the forced inclusion of one packet
ChunkEndPacket(chunk_start_packet_, target_end_time, times) ==
    LET e == ScanEnd(chunk_start_packet_, chunk_start_packet_, target_end_time, times)
    IN  IF e = chunk_start_packet_ THEN chunk_start_packet_ + 1 ELSE e

\* faulty variant: off by one, the end time of the packet after the chunk
ChunkEndTimeNext(chunk_end_packet, times, total) ==
    IF chunk_end_packet < Len(times)
    THEN TimeAt(times, chunk_end_packet)
    ELSE total

\* lines 161-165
ChunkEndTime(chunk_end_packet, times, total) ==
    IF chunk_end_packet < Len(times)
    THEN TimeAt(times, chunk_end_packet - 1)
    ELSE total

\* faulty variant: the range starts one packet late
ChunkPacketsSkipFirst(chunk_start_packet_, chunk_end_packet) ==
    [i \in 1..(chunk_end_packet - chunk_start_packet_ - 1) |-> chunk_start_packet_ + i]

\* lines 168-171: for i in chunk_start_packet..chunk_end_packet
ChunkPackets(chunk_start_packet_, chunk_end_packet) ==
    [i \in 1..(chunk_end_packet - chunk_start_packet_) |-> chunk_start_packet_ + i - 1]


-----------------------------------------------------------------------------
(* Byte counts and u32 values: hi * 2^16 + lo *)

Limb == 2^16

ToWide(n) == [hi |-> n \div Limb, lo |-> n % Limb]

WAdd(a, b) ==
    LET l == a.lo + b.lo
    IN  [hi |-> a.hi + b.hi + l \div Limb, lo |-> l % Limb]

\* a * c for a plain natural c
WMul(a, c) ==
    LET l == a.lo * c
    IN  [hi |-> a.hi * c + l \div Limb, lo |-> l % Limb]

FitsU32(w) == w.hi < Limb

\* the value modulo 2^32: an `as u32` cast, or a wrapping operation's result
WrapU32(w) == [hi |-> w.hi % Limb, lo |-> w.lo]

\* u32 `+`: panics on overflow when overflow checks are on, wraps otherwise
U32Add(a, b, checks) ==
    LET s == WAdd(a, b)
    IN  [panic |-> checks /\ ~FitsU32(s), val |-> WrapU32(s)]

\* u32 `*`
U32Mul(a, c, checks) ==
    LET m == WMul(a, c)
    IN  [panic |-> checks /\ ~FitsU32(m), val |-> WrapU32(m)]

\* u16 `*`
U16Mul(a, b, checks) ==
    [panic |-> checks /\ a * b >= Limb, val |-> (a * b) % Limb]

\* u32::to_le_bytes
LeBytes32(w) == <<w.lo % 256, w.lo \div 256, w.hi % 256, w.hi \div 256>>

\* u16::to_le_bytes
LeBytes16(n) == <<n % 256, n \div 256>>

-----------------------------------------------------------------------------
(* Third pass: format parameters, data size, header *)

HeaderSize == 44

DefaultSampleRate == 44100

DefaultChannels == 2

DefaultBitsPerSample == 16

RiffOverhead == 36

FmtChunkSize == 16

PcmFormat == 1

\* line 216
SampleRateOf(params) ==
    IF params.sample_rate = None THEN ToWide(DefaultSampleRate)
    ELSE ToWide(Unwrap(params.sample_rate))

\* line 217: the number of channels of the mask, FRONT_LEFT | FRONT_RIGHT by default
ChannelsOf(params) ==
    IF params.channels = None THEN DefaultChannels ELSE Unwrap(params.channels)

\* lines 218-221: `bits as u16`
BitsPerSampleOf(params) ==
    IF params.bits_per_sample = None THEN DefaultBitsPerSample
    ELSE Unwrap(params.bits_per_sample) % Limb

\* line 222
BytesPerSample(bits_per_sample) == bits_per_sample \div 8

\* lines 242-245: chunk_data_size += len as u32, over the chunk's packets
RECURSIVE SumDataSize(_, _, _, _)
SumDataSize(lens, i, acc, checks) ==
    IF i > Len(lens) THEN [panic |-> FALSE, val |-> acc]
    ELSE LET s == U32Add(acc, WrapU32(lens[i]), checks)
         IN  IF s.panic THEN s ELSE SumDataSize(lens, i + 1, s.val, checks)

ChunkDataSize(lens, checks) == SumDataSize(lens, 1, ToWide(0), checks)

Riff == <<82, 73, 70, 70>>
Wave == <<87, 65, 86, 69>>
FmtTag == <<102, 109, 116, 32>>
DataTag == <<100, 97, 116, 97>>

\* lines 268-301: the bytes written, or a panic in the arithmetic of lines 277-279
WriteWavHeader(data_size, sample_rate, channels, bits_per_sample, bytes_per_sample, checks) ==
    LET r1          == U32Mul(sample_rate, channels, checks)
        byte_rate   == U32Mul(r1.val, bytes_per_sample, checks)
        block_align == U16Mul(channels, bytes_per_sample, checks)
        file_size   == U32Add(data_size, ToWide(RiffOverhead), checks)
    IN  IF r1.panic \/ byte_rate.panic \/ block_align.panic \/ file_size.panic
        THEN [panic |-> TRUE, bytes |-> << >>]
        ELSE [panic |-> FALSE,
              bytes |-> Riff \o LeBytes32(file_size.val) \o Wave
                        \o FmtTag \o LeBytes32(ToWide(FmtChunkSize))
                        \o LeBytes16(PcmFormat) \o LeBytes16(channels)
                        \o LeBytes32(sample_rate) \o LeBytes32(byte_rate.val)
                        \o LeBytes16(block_align.val) \o LeBytes16(bits_per_sample)
                        \o DataTag \o LeBytes32(data_size)]

\* faulty variant: the payloads are written last packet first
RECURSIVE ChunkPayloadReversed(_, _)
ChunkPayloadReversed(idxs, pkts) ==
    IF idxs = << >> THEN << >>
    ELSE ChunkPayloadReversed(Tail(idxs), pkts) \o pkts[Head(idxs) + 1].data

\* lines 251-253: the payloads of the chunk's packets, in the order of chunk.packets
RECURSIVE ChunkPayload(_, _)
ChunkPayload(idxs, pkts) ==
    IF idxs = << >> THEN << >>
    ELSE pkts[Head(idxs) + 1].data \o ChunkPayload(Tail(idxs), pkts)

\* the payload lengths summed by lines 243-245
PayloadLens(idxs, pkts) == [i \in 1..Len(idxs) |-> ToWide(Len(pkts[idxs[i] + 1].data))]

-----------------------------------------------------------------------------
(* split_wav *)

\* before line 104 no codec parameters are held
NoCodecParams ==
    [time_base |-> None, sample_rate |-> None, channels |-> None,
     bits_per_sample |-> None]

WriterIdle ==
    /\ w_pc = "idle"
    /\ w_lens = << >>
    /\ w_fmt = [sample_rate |-> ToWide(0), channels |-> 0, bits_per_sample |-> 0]
    /\ w_size = ToWide(0)
    /\ w_out = << >>
    /\ w_written = ToWide(0)

SplitStart ==
    /\ pc = "mkdir"
    /\ result = "none"
    /\ error = "none"
    /\ failures = {}
    /\ codec_params = NoCodecParams
    /\ packets = << >>
    /\ packet_times = << >>
    /\ total_duration = ZeroDuration
    /\ chunks = << >>
    /\ chunk_start_packet = 0
    /\ chunk_start_time = ZeroDuration
    /\ files = << >>
    /\ output_files = << >>

Init ==
    /\ SplitStart
    /\ overflow_checks \in BOOLEAN
    /\ chunk_duration \in ChunkDurations
    /\ WriterIdle

\* `?` on an Err: split_wav returns the error
Fail(stage, msg) ==
    /\ pc' = "done"
    /\ result' = "Err"
    /\ error' = msg
    /\ failures' = failures \cup {stage}

\* lines 76-78
CreateOutputDir ==
    /\ pc = "mkdir"
    /\ \/ /\ pc' = "open"
          /\ UNCHANGED <<result, error, failures>>
       \/ Fail("create_dir", "io")
    /\ UNCHANGED <<overflow_checks, chunk_duration, codec_params, packets,
                   packet_times, total_duration, chunks, chunk_start_packet,
                   chunk_start_time, files, output_files, writerVars>>

\* line 81
OpenInput ==
    /\ pc = "open"
    /\ \/ /\ pc' = "probe"
          /\ UNCHANGED <<result, error, failures>>
       \/ Fail("open", "io")
    /\ UNCHANGED <<overflow_checks, chunk_duration, codec_params, packets,
                   packet_times, total_duration, chunks, chunk_start_packet,
                   chunk_start_time, files, output_files, writerVars>>

\* lines 93-95
ProbeFormat ==
    /\ pc = "probe"
    /\ \/ /\ pc' = "track"
          /\ UNCHANGED <<result, error, failures>>
       \/ Fail("probe", "Error probing format")
    /\ UNCHANGED <<overflow_checks, chunk_duration, codec_params, packets,
                   packet_times, total_duration, chunks, chunk_start_packet,
                   chunk_start_time, files, output_files, writerVars>>

\* lines 100-104
DefaultTrack ==
    /\ pc = "track"
    /\ \/ /\ pc' = "time_base"
          /\ codec_params' \in CodecParamSamples
          /\ UNCHANGED <<result, error, failures>>
       \/ /\ Fail("default_track", "No default track found")
          /\ UNCHANGED codec_params
    /\ UNCHANGED <<overflow_checks, chunk_duration, packets,
                   packet_times, total_duration, chunks, chunk_start_packet,
                   chunk_start_time, files, output_files, writerVars>>

\* lines 105-106
TimeBase ==
    /\ pc = "time_base"
    /\ IF codec_params.time_base = None
       THEN Fail("time_base", "No time base found")
       ELSE /\ pc' = "read"
            /\ UNCHANGED <<result, error, failures>>
    /\ UNCHANGED <<overflow_checks, chunk_duration, codec_params, packets,
                   packet_times, total_duration, chunks, chunk_start_packet,
                   chunk_start_time, files, output_files, writerVars>>

\* what format.next_packet() returns besides Ok(packet)
ReadErrors == {"EndOfStream", "IoError"}

\* lines 115-129: one evaluation of `while let Ok(packet) = format.next_packet()`
NextPacket ==
    /\ pc = "read"
    /\ \/ /\ Len(packets) < MaxPackets
          /\ \E packet \in PacketSamples :
                LET t == DurAdd(total_duration,
                                PacketDuration(packet.dur,
                                               Unwrap(codec_params.time_base)))
                IN  /\ total_duration' = t
                    /\ packet_times' = Append(packet_times, t)
                    /\ packets' = Append(packets, packet)
          /\ UNCHANGED <<pc, result, error, failures>>
       \/ /\ \E e \in ReadErrors :
                IF packets = << >>
                THEN Fail(IF e = "EndOfStream" THEN "empty" ELSE "read",
                          "No audio packets found")
                ELSE /\ pc' = "plan"
                     /\ failures' = IF e = "EndOfStream" THEN failures
                                    ELSE failures \cup {"read"}
                     /\ UNCHANGED <<result, error>>
          /\ UNCHANGED <<packets, packet_times, total_duration>>
    /\ UNCHANGED <<overflow_checks, chunk_duration, codec_params, chunks,
                   chunk_start_packet, chunk_start_time, files, output_files,
                   writerVars>>

\* lines 143-187: one iteration of the outer while loop
PlanChunk ==
    /\ pc = "plan"
    /\ chunk_start_packet < N
    /\ LET target_end_time == DurAdd(chunk_start_time, chunk_duration)
           chunk_end_packet ==
               ChunkEndPacket(chunk_start_packet, target_end_time, packet_times)
           chunk_end_time ==
               ChunkEndTime(chunk_end_packet, packet_times, total_duration)
       IN  /\ chunks' = Append(chunks,
                 [start_time |-> chunk_start_time,
                  end_time   |-> chunk_end_time,
                  packets    |-> ChunkPackets(chunk_start_packet, chunk_end_packet)])
           /\ chunk_start_packet' = chunk_end_packet
           /\ chunk_start_time' = chunk_end_time
           /\ pc' = IF chunk_end_packet >= N THEN "header" ELSE "plan"
    /\ UNCHANGED <<result, error, failures, overflow_checks, chunk_duration,
                   codec_params, packets, packet_times, total_duration, files,
                   output_files, writerVars>>

\* lines 199-210
ReadHeader ==
    /\ pc = "header"
    /\ \/ /\ pc' = "write"
          /\ UNCHANGED <<result, error, failures>>
       \/ Fail("header_open", "io")
       \/ Fail("header_read", "Failed to read WAV header")
    /\ UNCHANGED <<overflow_checks, chunk_duration, codec_params, packets,
                   packet_times, total_duration, chunks, chunk_start_packet,
                   chunk_start_time, files, output_files, writerVars>>

\* lines 225-255: one iteration of the loop over the chunks
WriteChunk ==
    /\ pc = "write"
    /\ Len(output_files) < Len(chunks)
    /\ LET chunk_idx == Len(output_files)
           chunk == chunks[chunk_idx + 1]
           bits_per_sample == BitsPerSampleOf(codec_params)
           size == ChunkDataSize(PayloadLens(chunk.packets, packets), overflow_checks)
           header == WriteWavHeader(size.val, SampleRateOf(codec_params),
                                    ChannelsOf(codec_params), bits_per_sample,
                                    BytesPerSample(bits_per_sample), overflow_checks)
           content == header.bytes \o ChunkPayload(chunk.packets, packets)
       IN  /\ output_files' = Append(output_files, chunk_idx + 1)
           /\ \/ /\ Fail("create", "io")
                 /\ UNCHANGED files
              \/ /\ size.panic \/ header.panic
                 /\ pc' = "done"
                 /\ result' = "Panic"
                 /\ files' = Append(files, [name |-> chunk_idx + 1, bytes |-> << >>])
                 /\ UNCHANGED <<error, failures>>
              \/ /\ ~(size.panic \/ header.panic)
                 /\ \E cut \in {0, HeaderSize} :
                       files' = Append(files, [name  |-> chunk_idx + 1,
                                               bytes |-> SubSeq(content, 1, cut)])
                 /\ Fail("write", "io")
              \/ /\ ~(size.panic \/ header.panic)
                 /\ files' = Append(files, [name |-> chunk_idx + 1, bytes |-> content])
                 /\ UNCHANGED <<pc, result, error, failures>>
    /\ UNCHANGED <<overflow_checks, chunk_duration, codec_params, packets,
                   packet_times, total_duration, chunks, chunk_start_packet,
                   chunk_start_time, writerVars>>

\* lines 257-264
Finish ==
    /\ pc = "write"
    /\ Len(output_files) = Len(chunks)
    /\ pc' = "done"
    /\ result' = "Ok"
    /\ UNCHANGED <<error, failures, overflow_checks, chunk_duration, codec_params,
                   packets, packet_times, total_duration, chunks,
                   chunk_start_packet, chunk_start_time, files, output_files,
                   writerVars>>

Next ==
    \/ CreateOutputDir
    \/ OpenInput
    \/ ProbeFormat
    \/ DefaultTrack
    \/ TimeBase
    \/ NextPacket
    \/ PlanChunk
    \/ ReadHeader
    \/ WriteChunk
    \/ Finish

Spec == Init /\ [][Next]_vars

-----------------------------------------------------------------------------
(* The body of the third pass for one chunk (lines 241-254), driven with    *)
(* payload lengths and format parameters over the whole u32 range           *)

MaxChunkPackets == 2

\* 0, 4, 2^31, 2^32 - 37, 2^32 - 36
LenSamples ==
    { ToWide(0), ToWide(4), [hi |-> 2^15, lo |-> 0],
      [hi |-> Limb - 1, lo |-> Limb - 37], [hi |-> Limb - 1, lo |-> Limb - 36] }

FormatSamples ==
    { [sample_rate |-> ToWide(0), channels |-> 2, bits_per_sample |-> 16],
      [sample_rate |-> ToWide(44100), channels |-> 2, bits_per_sample |-> 16],
      [sample_rate |-> ToWide(96000), channels |-> 6, bits_per_sample |-> 24],
      [sample_rate |-> ToWide(8000), channels |-> 40000, bits_per_sample |-> 16],
      [sample_rate |-> [hi |-> Limb - 1, lo |-> Limb - 1], channels |-> 2,
       bits_per_sample |-> 16],
      [sample_rate |-> [hi |-> Limb - 1, lo |-> Limb - 1], channels |-> 1,
       bits_per_sample |-> 8] }

SplitIdle ==
    /\ pc = "idle"
    /\ result = "none"
    /\ error = "none"
    /\ failures = {}
    /\ chunk_duration = ZeroDuration
    /\ codec_params = NoCodecParams
    /\ packets = << >>
    /\ packet_times = << >>
    /\ total_duration = ZeroDuration
    /\ chunks = << >>
    /\ chunk_start_packet = 0
    /\ chunk_start_time = ZeroDuration
    /\ files = << >>
    /\ output_files = << >>

InitWriter ==
    /\ SplitIdle
    /\ overflow_checks \in BOOLEAN
    /\ w_pc = "size"
    /\ \E n \in 1..MaxChunkPackets : w_lens \in [1..n -> LenSamples]
    /\ w_fmt \in FormatSamples
    /\ w_size = ToWide(0)
    /\ w_out = << >>
    /\ w_written = ToWide(0)

\* lines 241-245
ComputeDataSize ==
    /\ w_pc = "size"
    /\ LET size == ChunkDataSize(w_lens, overflow_checks)
       IN  IF size.panic
           THEN w_pc' = "panic_size" /\ UNCHANGED w_size
           ELSE w_pc' = "header" /\ w_size' = size.val
    /\ UNCHANGED <<splitVars, overflow_checks, w_lens, w_fmt, w_out, w_written>>

\* line 248
CallWriteWavHeader ==
    /\ w_pc = "header"
    /\ LET header == WriteWavHeader(w_size, w_fmt.sample_rate, w_fmt.channels,
                                    w_fmt.bits_per_sample,
                                    BytesPerSample(w_fmt.bits_per_sample),
                                    overflow_checks)
       IN  /\ w_pc' = IF header.panic THEN "panic_header" ELSE "payload"
           /\ w_out' = header.bytes
    /\ UNCHANGED <<splitVars, overflow_checks, w_lens, w_fmt, w_size, w_written>>

\* the exact sum of a sequence of byte counts
RECURSIVE WSum(_)
WSum(lens) == IF lens = << >> THEN ToWide(0) ELSE WAdd(Head(lens), WSum(Tail(lens)))

\* lines 250-254: write_all writes every byte of every payload
WritePayloads ==
    /\ w_pc = "payload"
    /\ w_pc' = "written"
    /\ w_written' = WSum(w_lens)
    /\ UNCHANGED <<splitVars, overflow_checks, w_lens, w_fmt, w_size, w_out>>

NextWriter ==
    \/ ComputeDataSize
    \/ CallWriteWavHeader
    \/ WritePayloads

SpecWriter == InitWriter /\ [][NextWriter]_vars

-----------------------------------------------------------------------------
(* Properties of the chunk plan *)

Last(seq) == seq[Len(seq)]

\* the second pass has run to its end
PlanDone == pc \in {"header", "write"} \/ (pc = "done" /\ chunks # << >>)

\* chunk i is followed by another chunk, now or once the plan is complete
NonFinal(i) == i < Len(chunks) \/ pc = "plan"

ChunkLen(i) == DurSub(chunks[i].end_time, chunks[i].start_time)

\* the chunks that hold packet index k
Holders(k) ==
    {i \in 1..Len(chunks) : \E j \in 1..Len(chunks[i].packets) : chunks[i].packets[j] = k}

\* C1 (coverage): for a chunk duration D > 0 the packet index lists of the
\* chunks are non-empty runs of consecutive indices, the first starting at 0,
\* each starting where the previous one ended, and the last one of the
\* complete plan ending at N; every index below N is then in exactly one chunk.
C1_Coverage ==
    chunk_duration # ZeroDuration =>
        /\ \A i \in 1..Len(chunks) :
              LET c == chunks[i].packets
              IN  /\ Len(c) >= 1
                  /\ \A j \in 1..(Len(c) - 1) : c[j + 1] = c[j] + 1
                  /\ c[1] = IF i = 1 THEN 0 ELSE Last(chunks[i - 1].packets) + 1
                  /\ \A j \in 1..Len(c) : c[j] \in 0..(N - 1)
        /\ PlanDone =>
              /\ Last(Last(chunks).packets) + 1 = N
              /\ \A k \in 0..(N - 1) : Cardinality(Holders(k)) = 1

C1_Witness ==
    /\ PlanDone
    /\ chunk_duration # ZeroDuration
    /\ Len(chunks) = 2
    /\ Len(chunks[1].packets) = 2
    /\ N = 3

\* C2 (minimum duration): for D > 0 every chunk that is not the last one of
\* the plan lasts at least D, and every chunk ends on a packet whose
\* cumulative end time has reached chunk start + D or on the last packet.
C2_MinimumDuration ==
    chunk_duration # ZeroDuration =>
        \A i \in 1..Len(chunks) :
            LET c == chunks[i]
            IN  /\ NonFinal(i) => DurLeq(chunk_duration, ChunkLen(i))
                /\ \/ DurLeq(DurAdd(c.start_time, chunk_duration),
                             TimeAt(packet_times, Last(c.packets)))
                   \/ Last(c.packets) = N - 1

C2_Witness ==
    /\ PlanDone
    /\ chunk_duration # ZeroDuration
    /\ Len(chunks) = 2
    /\ DurLess(chunk_duration, ChunkLen(1))
    /\ DurLess(ChunkLen(2), chunk_duration)

\* C7 (bounded overshoot): for D > 0 a chunk is longer than D by at most the
\* duration of its last packet, and in a chunk of two or more packets the
\* packet before the last one ends strictly before chunk start + D.
C7_BoundedOvershoot ==
    chunk_duration # ZeroDuration =>
        \A i \in 1..Len(chunks) :
            LET c == chunks[i]
                last == Last(c.packets)
                last_dur == PacketDuration(packets[last + 1].dur,
                                           Unwrap(codec_params.time_base))
            IN  /\ DurLeq(ChunkLen(i), DurAdd(chunk_duration, last_dur))
                /\ Len(c.packets) >= 2 =>
                      DurLess(TimeAt(packet_times, last - 1),
                              DurAdd(c.start_time, chunk_duration))

C7_Witness ==
    /\ chunk_duration # ZeroDuration
    /\ \E i \in 1..Len(chunks) :
          /\ Len(chunks[i].packets) >= 2
          /\ DurLess(chunk_duration, ChunkLen(i))

\* C8 (ordering): every chunk has start_time <= end_time, chunk i + 1 starts
\* at the end time of chunk i, a chunk's end time is the cumulative end time
\* of its last packet, the first chunk starts at 0 and the last chunk of the
\* complete plan ends at the total duration.
C8_Ordering ==
    /\ \A i \in 1..Len(chunks) :
          LET c == chunks[i]
          IN  /\ DurLeq(c.start_time, c.end_time)
              /\ c.end_time = TimeAt(packet_times, Last(c.packets))
              /\ c.start_time = IF i = 1 THEN ZeroDuration ELSE chunks[i - 1].end_time
              /\ i > 1 => /\ DurLeq(chunks[i - 1].start_time, c.start_time)
                          /\ DurLeq(chunks[i - 1].end_time, c.end_time)
    /\ PlanDone => Last(chunks).end_time = total_duration

C8_Witness ==
    /\ PlanDone
    /\ Len(chunks) = 3
    /\ DurLess(chunks[1].end_time, chunks[2].end_time)
    /\ chunks[2].end_time = chunks[3].end_time

-----------------------------------------------------------------------------
(* Properties of the output *)

\* the payload section of a file: everything after the 44-byte header
PayloadSection(bytes) == SubSeq(bytes, HeaderSize + 1, Len(bytes))

RECURSIVE ConcatPayloadSections(_)
ConcatPayloadSections(fs) ==
    IF fs = << >> THEN << >>
    ELSE PayloadSection(Head(fs).bytes) \o ConcatPayloadSections(Tail(fs))

RECURSIVE ConcatPacketData(_)
ConcatPacketData(pkts) ==
    IF pkts = << >> THEN << >>
    ELSE Head(pkts).data \o ConcatPacketData(Tail(pkts))

\* C3 (round trip): after split_wav returned Ok there is one file per chunk,
\* numbered 1..chunk_count in order, and their payload sections concatenated
\* in that order are the payloads of packets 0..N-1 concatenated in order.
C3_RoundTrip ==
    result = "Ok" =>
        /\ Len(files) = Len(chunks)
        /\ \A i \in 1..Len(files) : files[i].name = i /\ output_files[i] = i
        /\ ConcatPayloadSections(files) = ConcatPacketData(packets)

C3_Witness ==
    /\ result = "Ok"
    /\ Len(files) = 2
    /\ Len(chunks[1].packets) = 2
    /\ packets[1].data = <<2, 3>>
    /\ packets[2].data = <<4>>
    /\ packets[3].data = <<1>>

\* C5 (every failure is fatal): split_wav never returns Ok after a stage failed.
C5_FailuresAreFatal == result = "Ok" => failures = {}

\* bytes off..off+3 of a header, read as a little-endian u32
FieldU32(bytes, off) ==
    [hi |-> bytes[off + 3] + 256 * bytes[off + 4],
     lo |-> bytes[off + 1] + 256 * bytes[off + 2]]

\* bytes off..off+1 of a header, read as a little-endian u16
FieldU16(bytes, off) == bytes[off + 1] + 256 * bytes[off + 2]

\* C4 (byte exactness): in every chunk written, Subchunk2Size is the number of
\* payload bytes written after the header and ChunkSize is 36 + Subchunk2Size.
C4_ByteExactness ==
    w_pc = "written" =>
        /\ FieldU32(w_out, 40) = w_written
        /\ FieldU32(w_out, 4) = WAdd(ToWide(RiffOverhead), FieldU32(w_out, 40))

\* the call of write_wav_header has returned or panicked
HeaderCallDone == w_pc \in {"payload", "written", "panic_header"}

\* C6 (header synthesis): write_wav_header emits exactly 44 bytes, laid out
\* as the canonical PCM header with ByteRate = SampleRate * NumChannels *
\* (BitsPerSample / 8) and BlockAlign = NumChannels * (BitsPerSample / 8).
C6_HeaderSynthesis ==
    HeaderCallDone =>
        LET bytes_per_sample == w_fmt.bits_per_sample \div 8
        IN  /\ Len(w_out) = HeaderSize
            /\ SubSeq(w_out, 1, 4) = Riff
            /\ SubSeq(w_out, 9, 12) = Wave
            /\ SubSeq(w_out, 13, 16) = FmtTag
            /\ FieldU32(w_out, 16) = ToWide(FmtChunkSize)
            /\ FieldU16(w_out, 20) = PcmFormat
            /\ FieldU16(w_out, 22) = w_fmt.channels
            /\ FieldU32(w_out, 24) = w_fmt.sample_rate
            /\ FieldU32(w_out, 28) =
                  WMul(WMul(w_fmt.sample_rate, w_fmt.channels), bytes_per_sample)
            /\ FieldU16(w_out, 32) = w_fmt.channels * bytes_per_sample
            /\ FieldU16(w_out, 34) = w_fmt.bits_per_sample
            /\ SubSeq(w_out, 37, 40) = DataTag
            /\ FieldU32(w_out, 40) = w_size

-----------------------------------------------------------------------------
(* Uniform packets: the second and third pass from an inventory of equal    *)
(* packets, with a chunk duration that is a multiple of the packet duration *)

MaxUniformPackets == 7

MaxChunkFactor == 4

UniformFrameLens == {1, 2}

UniformTimeBases == { [numer |-> 1, denom |-> 3], [numer |-> 1, denom |-> 10] }

\* k * d, as a sum of k terms d (split in halves to keep the evaluation shallow)
RECURSIVE DurMul(_, _)
DurMul(d, k) ==
    IF k = 0 THEN ZeroDuration
    ELSE IF k = 1 THEN d
    ELSE DurAdd(DurMul(d, k \div 2), DurMul(d, k - k \div 2))

\* lines 117-122: total_duration once packets lo..hi have been added to it
\* (Duration addition is associative: the sum is split in halves to keep
\* the evaluation shallow)
RECURSIVE SumDurations(_, _, _, _)
SumDurations(pkts, time_base, lo, hi) ==
    IF lo > hi THEN ZeroDuration
    ELSE IF lo = hi THEN PacketDuration(pkts[lo].dur, time_base)
    ELSE DurAdd(SumDurations(pkts, time_base, lo, (lo + hi) \div 2),
                SumDurations(pkts, time_base, (lo + hi) \div 2 + 1, hi))

\* lines 111-125: packet_times after the first pass has read pkts
PacketTimes(pkts, time_base) ==
    [i \in 1..Len(pkts) |-> SumDurations(pkts, time_base, 1, i)]

\* split_wav at line 137, having read n packets of frame_len frames each
AfterFirstPass(n, frame_len, time_base, d) ==
    /\ pc = "plan"
    /\ result = "none"
    /\ error = "none"
    /\ failures = {}
    /\ chunk_duration = d
    /\ codec_params = [time_base |-> Some(time_base), sample_rate |-> None,
                       channels |-> None, bits_per_sample |-> None]
    /\ packets = [i \in 1..n |-> [dur |-> frame_len, data |-> << >>]]
    /\ packet_times = PacketTimes(packets, time_base)
    /\ total_duration = Last(packet_times)
    /\ chunks = << >>
    /\ chunk_start_packet = 0
    /\ chunk_start_time = ZeroDuration
    /\ files = << >>
    /\ output_files = << >>

InitUniform ==
    /\ overflow_checks \in BOOLEAN
    /\ WriterIdle
    /\ \/ \E n \in 1..MaxUniformPackets, f \in UniformFrameLens,
             tb \in UniformTimeBases, k \in 1..MaxChunkFactor :
             AfterFirstPass(n, f, tb, DurMul(PacketDuration(f, tb), k))
       \/ AfterFirstPass(100, 1, [numer |-> 1, denom |-> 10], [secs |-> 3, nanos |-> 0])

NextUniform ==
    \/ PlanChunk
    \/ ReadHeader
    \/ WriteChunk
    \/ Finish

SpecUniform == InitUniform /\ [][NextUniform]_vars

\* the index list of the packets in [lo, hi)
Range(lo, hi) == [j \in 1..(hi - lo) |-> lo + j - 1]

Min(a, b) == IF a < b THEN a ELSE b

DurMin(a, b) == IF DurLess(a, b) THEN a ELSE b

\* the inventory holds packets of equal duration p > 0 and D = k * p
UniformCase(p, k) ==
    /\ p # ZeroDuration
    /\ chunk_duration = DurMul(p, k)
    /\ \A i \in 1..N : packet_times[i] = DurMul(p, i)

\* C9 (uniform packets): for N packets of equal duration p > 0 and D = k * p,
\* chunk i (0-based) covers packets [i*k, min((i+1)*k, N)) and spans
\* [i*D, min((i+1)*D, N*p)], the complete plan has ceil(N / k) chunks and a
\* successful run as many files; 100 packets of 0.1 s with D = 3 s give the
\* 4 chunks 0-29, 30-59, 60-89, 90-99, the last one spanning 9.0 s - 10.0 s.
C9_UniformPackets ==
    N >= 1 =>
        /\ \A k \in (1..MaxChunkFactor) \cup {30} :
              UniformCase(packet_times[1], k) =>
                 /\ \A i \in 1..Len(chunks) :
                       /\ chunks[i].packets = Range((i - 1) * k, Min(i * k, N))
                       /\ chunks[i].start_time = DurMul(chunk_duration, i - 1)
                       /\ chunks[i].end_time =
                             DurMin(DurMul(chunk_duration, i), total_duration)
                 /\ total_duration = DurMul(packet_times[1], N)
                 /\ PlanDone => Len(chunks) = (N + k - 1) \div k
                 /\ result = "Ok" => Len(output_files) = (N + k - 1) \div k
        /\ ( /\ N = 100
             /\ \A i \in 1..N : packets[i].dur = 1
             /\ codec_params.time_base = Some([numer |-> 1, denom |-> 10])
             /\ chunk_duration = [secs |-> 3, nanos |-> 0]
             /\ PlanDone )
           => /\ Len(chunks) = 4
              /\ chunks[1].packets = Range(0, 30)
              /\ chunks[2].packets = Range(30, 60)
              /\ chunks[3].packets = Range(60, 90)
              /\ chunks[4].packets = Range(90, 100)
              /\ chunks[4].start_time = [secs |-> 9, nanos |-> 0]
              /\ chunks[4].end_time = [secs |-> 10, nanos |-> 0]
              /\ result = "Ok" => Len(output_files) = 4 /\ Len(files) = 4

C9_Witness ==
    /\ N = 100
    /\ chunk_duration = [secs |-> 3, nanos |-> 0]
    /\ packet_times[1] = [secs |-> 0, nanos |-> 100000000]
    /\ result = "Ok"
    /\ Len(files) = 4

-----------------------------------------------------------------------------
(* Termination of the second pass *)

\* split_wav is a sequential program: it keeps running until it returns
FairSpec == Spec /\ WF_vars(Next)

\* C10 (termination): the second pass ends; each of its iterations emits a
\* chunk of at least one packet and strictly increases chunk_start_packet, so
\* there are never more than N chunks and the pass ends with
\* chunk_start_packet = N.  D = 0 and packets of duration 0 are included.
C10_PlannerTerminates ==
    /\ (pc = "plan") ~> (pc # "plan")
    /\ [][chunks' # chunks =>
             /\ chunk_start_packet' > chunk_start_packet
             /\ Len(Last(chunks').packets) >= 1]_vars
    /\ [](Len(chunks) <= N)
    /\ [](PlanDone => chunk_start_packet = N)

C10_Witness ==
    /\ PlanDone
    /\ chunk_duration = ZeroDuration
    /\ Len(chunks) = 3
    /\ packets[2].dur = 0

=============================================================================
